---- MODULE Spec2Model ----
(***************************************************************************)
(* NPDM generation of linkle (src/format/npdm.rs, src/format/utils.rs).     *)
(*                                                                         *)
(* Unsigned machine integers that are packed into bit fields (u16, u32,    *)
(* u64) are modelled as the set of their set bit positions, so that a      *)
(* 32-bit word with bit 31 set and a 64-bit HexOrNum are both exact.  Small *)
(* fields (u8, lengths, sizes, bytes) are natural numbers.  A string is a  *)
(* sequence of one-character strings; a service name is a sequence of its  *)
(* bytes.                                                                  *)
(***************************************************************************)
EXTENDS Integers, Sequences, FiniteSets, TLC

VARIABLES
    npdm,           \* the descriptor (struct Npdm) given to into_npdm
    acid_behavior,  \* the AcidBehavior argument and the files it names
    pc,             \* position of into_npdm
    meta,           \* the Meta header built by into_npdm
    file,           \* the output sink: the chunks written so far, in order
    result,         \* what into_npdm returned (or that it panicked)
    cap,            \* the input of a single KernelCapability::encode call
    encoded,        \* the result of that call
    kcaps,          \* the receiver of a single KernelCapabilities::get_list call
    kcap_list,      \* the list that call returned
    truncate_call,  \* the arguments of a single check_string_or_truncate call
    string          \* the String that call works on, in place

vars == <<npdm, acid_behavior, pc, meta, file, result, cap, encoded, kcaps, kcap_list,
          truncate_call, string>>

(* ------------------------------ bounds --------------------------------- *)
MaxSyscalls == 3    \* longest system-call list enumerated
MaxNameLen == 9     \* longest service name enumerated
MaxExtLen == 2      \* longest external ACID file enumerated, in bytes
MaxStringLen == 18  \* longest string given to check_string_or_truncate
MaxFieldSize == 17  \* largest field size given to check_string_or_truncate

Salts == {0, 1}     \* the random salts of RSA-PSS that are told apart

(* --------------------------- bit sets ---------------------------------- *)
Pow2(n) == 2 ^ n

\* the bits of a natural number below 2^31
BitsOf(n) == {i \in 0..30 : (n \div Pow2(i)) % 2 = 1}

RECURSIVE SumBits(_)
SumBits(S) ==
    IF S = {} THEN 0
    ELSE LET b == CHOOSE x \in S : TRUE IN Pow2(b) + SumBits(S \ {b})

\* the number a bit set stands for (all bits below 31)
ValOf(bits) == SumBits(bits)

\* a < b on bit sets: at the highest bit where they differ, b has it
LessThan(a, b) == \E i \in b \ a : \A j \in (a \cup b) : j > i => (j \in a <=> j \in b)

\* `x as u16`, `x as u32`: keep the low w bits
TruncTo(bits, w) == {b \in bits : b < w}

\* u32::try_from(u64) succeeds
FitsU32(bits) == \A b \in bits : b < 32

\* BitField::get_bits(lo..hi)
get_bits(w, lo, hi) == {b - lo : b \in {x \in w : x >= lo /\ x < hi}}

\* BitField::set_bits(lo..hi, v) asserts that v fits into hi - lo bits
FitsRange(v, lo, hi) == \A b \in v : b < hi - lo

\* a set_bits whose field starts one bit too low
set_bits_low(w, lo, hi, v) == (w \ ((lo - 1)..(hi - 2))) \cup {b + lo - 1 : b \in v}

\* BitField::set_bits(lo..hi, v), once the assertion passed
set_bits(w, lo, hi, v) == (w \ (lo..(hi - 1))) \cup {b + lo : b \in v}

\* BitField::set_bit(bit, value)
set_bit(w, bit, value) == IF value THEN w \cup {bit} ELSE w \ {bit}

\* u32::to_le_bytes
to_le_bytes(w) == [k \in 1..4 |-> ValOf(get_bits(w, 8 * (k - 1), 8 * k))]

RemoveAt(s, i) == SubSeq(s, 1, i - 1) \o SubSeq(s, i + 1, Len(s))

(* --------------------------- results ----------------------------------- *)
Ok(ws) == [kind |-> "Ok", words |-> ws, error |-> "", field |-> ""]
ErrValue(f) == [kind |-> "Err", words |-> <<>>, error |-> "InvalidNpdmValue", field |-> f]
ErrDebugFlags == [kind |-> "Err", words |-> <<>>, error |-> "InvalidNpdmDebugFlags", field |-> ""]
Panic(m) == [kind |-> "Panic", words |-> <<>>, error |-> m, field |-> ""]

Some(v) == [kind |-> "Some", v |-> v]
None == [kind |-> "None", v |-> {}]
PanicValue == [kind |-> "Panic", v |-> {}]

(* --------------------------- strings ----------------------------------- *)
Digits == {"0", "1", "2", "3", "4", "5", "6", "7", "8", "9"}

DigitVal(c) ==
    CASE c = "0" -> 0 [] c = "1" -> 1 [] c = "2" -> 2 [] c = "3" -> 3 [] c = "4" -> 4
      [] c = "5" -> 5 [] c = "6" -> 6 [] c = "7" -> 7 [] c = "8" -> 8 [] c = "9" -> 9

\* char::to_lowercase on the letters the descriptors below use
LowerChar(c) ==
    CASE c = "A" -> "a" [] c = "S" -> "s" [] c = "P" -> "p" [] c = "L" -> "l"
      [] c = "E" -> "e" [] c = "T" -> "t" [] c = "Y" -> "y" [] c = "M" -> "m"
      [] c = "I" -> "i" [] c = "C" -> "c" [] c = "O" -> "o" [] c = "N" -> "n"
      [] OTHER -> c

\* str::to_lowercase
to_lowercase(s) == [i \in 1..Len(s) |-> LowerChar(s[i])]

\* str::split(sep).collect()
RECURSIVE split(_, _)
split(s, sep) ==
    IF \A i \in 1..Len(s) : s[i] # sep THEN <<s>>
    ELSE LET i == CHOOSE k \in 1..Len(s) : s[k] = sep /\ \A j \in 1..(k - 1) : s[j] # sep
         IN  <<SubSeq(s, 1, i - 1)>> \o split(SubSeq(s, i + 1, Len(s)), sep)

RECURSIVE DecValue(_)
DecValue(d) ==
    IF d = <<>> THEN 0
    ELSE 10 * DecValue(SubSeq(d, 1, Len(d) - 1)) + DigitVal(d[Len(d)])

\* u32::from_str_radix(s, 10): an optional '+', then one or more decimal digits.
\* (Strings of more than 9 digits, which may overflow u32, are not enumerated.)
from_str_radix(s) ==
    LET digits == IF s # <<>> /\ s[1] = "+" THEN Tail(s) ELSE s
    IN  IF digits = <<>> \/ \E i \in 1..Len(digits) : digits[i] \notin Digits
        THEN [ok |-> FALSE, v |-> 0]
        ELSE [ok |-> TRUE, v |-> DecValue(digits)]

(* --------------------- ProgramType / KernelVersion ---------------------- *)
ProgramTypeValue(v) == [form |-> "Value", val |-> v, str |-> <<>>]
ProgramTypeName(s) == [form |-> "Name", val |-> {}, str |-> s]

ProgramType_get_value(prog_type) ==
    IF prog_type.form = "Value"
    THEN IF LessThan(BitsOf(2), prog_type.val) THEN None
         ELSE Some(TruncTo(prog_type.val, 16))
    ELSE LET l == to_lowercase(prog_type.str)
         IN  IF l = <<"s", "y", "s", "t", "e", "m">> THEN Some(BitsOf(0))
             ELSE IF l = <<"a", "p", "p", "l", "i", "c", "a", "t", "i", "o", "n">> THEN Some(BitsOf(1))
             ELSE IF l = <<"a", "p", "p", "l", "e", "t">> THEN Some(BitsOf(2))
             ELSE None

KernelVersionValue(v) == [form |-> "Value", val |-> v, str |-> <<>>]
KernelVersionVersion(s) == [form |-> "Version", val |-> {}, str |-> s]

KernelVersion_get_value(kern_ver) ==
    IF kern_ver.form = "Value"
    THEN IF LessThan(kern_ver.val, BitsOf(48)) THEN None
         ELSE Some(TruncTo(kern_ver.val, 16))
    ELSE LET ver_strs == split(kern_ver.str, ".")
         IN  IF Len(ver_strs) = 2
             THEN LET major == from_str_radix(ver_strs[1])
                      minor == from_str_radix(ver_strs[2])
                      minor16 == TruncTo(BitsOf(minor.v), 16)
                      major16 == TruncTo(BitsOf(major.v), 16)
                  IN  IF major.ok /\ minor.ok
                      THEN IF ~FitsRange(minor16, 0, 4) \/ ~FitsRange(major16, 4, 16)
                           THEN PanicValue
                           ELSE Some(set_bits(set_bits({}, 0, 4, minor16), 4, 16, major16))
                      ELSE None
             ELSE None

(* --------------------------- capabilities ------------------------------ *)
ThreadInfo(hp, lp, maxc, minc) ==
    [type |-> "ThreadInfo", highest_priority |-> hp, lowest_priority |-> lp,
     max_core_number |-> maxc, min_core_number |-> minc]
\* form "Name": a Vec of SystemCallId; form "KeyValue": the values of the
\* HashMap in the order its iterator yields them
EnableSystemCalls(form, syscalls) ==
    [type |-> "EnableSystemCalls", form |-> form, syscalls |-> syscalls]
MemoryMap(address, size, is_ro, is_io) ==
    [type |-> "MemoryMap", address |-> address, size |-> size, is_ro |-> is_ro, is_io |-> is_io]
IoMemoryMap(page) == [type |-> "IoMemoryMap", page |-> page]
EnableInterrupts(irq0, irq1) == [type |-> "EnableInterrupts", irq0 |-> irq0, irq1 |-> irq1]
MiscParams(prog_type) == [type |-> "MiscParams", prog_type |-> prog_type]
KernelVersion(kern_ver) == [type |-> "KernelVersion", kern_ver |-> kern_ver]
HandleTableSize(n) == [type |-> "HandleTableSize", handle_table_size |-> n]
DebugFlags(allow_debug, force_debug_prod, force_debug) ==
    [type |-> "DebugFlags", allow_debug |-> allow_debug,
     force_debug_prod |-> force_debug_prod, force_debug |-> force_debug]

\* the first loop of encode_syscalls: six words 0b1111 with the index in 29..32
InitialMasks == [idx \in 1..6 |-> set_bits(0..3, 29, 32, BitsOf(idx - 1))]

\* the second loop: masks[v / 24].set_bit(v % 24 + 5); used[v / 24] = true.
\* Indexing masks with v / 24 >= 6 panics.
RECURSIVE MarkSyscalls(_, _, _)
MarkSyscalls(syscalls, masks, used) ==
    IF syscalls = <<>> THEN [panic |-> FALSE, masks |-> masks, used |-> used]
    ELSE LET syscall_val == Head(syscalls)
         IN  IF (\E b \in syscall_val : b > 30) \/ ValOf(syscall_val) \div 24 >= 6
             THEN [panic |-> TRUE, masks |-> masks, used |-> used]
             ELSE LET n == ValOf(syscall_val)
                  IN  MarkSyscalls(Tail(syscalls),
                          [masks EXCEPT ![(n \div 24) + 1] = set_bit(@, (n % 24) + 5, TRUE)],
                          [used EXCEPT ![(n \div 24) + 1] = TRUE])

\* a removal that stops at the last used bucket (drops a trailing suffix only)
RECURSIVE RemoveTrailing(_, _, _)
RemoveTrailing(masks, used, idx) ==
    IF idx = 0 \/ used[idx] THEN masks
    ELSE RemoveTrailing(RemoveAt(masks, idx), used, idx - 1)

\* the third loop: for idx in (0..6).rev() { if !used[idx] { masks.remove(idx) } }
RECURSIVE RemoveUnused(_, _, _)
RemoveUnused(masks, used, idx) ==
    IF idx = 0 THEN masks
    ELSE RemoveUnused(IF used[idx] THEN masks ELSE RemoveAt(masks, idx), used, idx - 1)

encode_syscalls(syscalls) ==
    LET marked == MarkSyscalls(syscalls, InitialMasks, [idx \in 1..6 |-> FALSE])
    IN  IF marked.panic THEN Panic("index out of bounds")
        ELSE Ok(RemoveUnused(marked.masks, marked.used, 6))

\* a ThreadInfo word with the two core numbers in each other's field
ThreadInfoWordSwapped(c) ==
    set_bits(set_bits(set_bits(set_bits(0..2,
        4, 10, BitsOf(c.highest_priority)),
        10, 16, BitsOf(c.lowest_priority)),
        16, 24, BitsOf(c.max_core_number)),
        24, 32, BitsOf(c.min_core_number))

\* the word of ThreadInfo (lines 162-166)
ThreadInfoWord(c) ==
    set_bits(set_bits(set_bits(set_bits(0..2,
        4, 10, BitsOf(c.highest_priority)),
        10, 16, BitsOf(c.lowest_priority)),
        16, 24, BitsOf(c.min_core_number)),
        24, 32, BitsOf(c.max_core_number))

\* a DebugFlags word that follows the order of the match pattern
\* (allow_debug, force_debug, force_debug_prod)
DebugFlagsWordPatternOrder(c) ==
    set_bit(set_bit(set_bit(0..15, 17, c.allow_debug), 18, c.force_debug), 19, c.force_debug_prod)

\* the word of DebugFlags (lines 219-222)
DebugFlagsWord(c) ==
    set_bit(set_bit(set_bit(0..15, 17, c.allow_debug), 18, c.force_debug_prod), 19, c.force_debug)

encode(c) ==
    CASE c.type = "ThreadInfo" ->
            IF    ~FitsRange(BitsOf(c.highest_priority), 4, 10)
               \/ ~FitsRange(BitsOf(c.lowest_priority), 10, 16)
            THEN Panic("value does not fit into bit range")
            ELSE Ok(<<ThreadInfoWord(c)>>)
      [] c.type = "EnableSystemCalls" ->
            encode_syscalls([i \in 1..Len(c.syscalls) |-> TruncTo(c.syscalls[i], 32)])
      [] c.type = "MemoryMap" ->
            IF ~FitsU32(c.address) \/ ~FitsU32(c.size)
            THEN Panic("called Result::unwrap() on an Err value")
            ELSE IF ~FitsRange(c.address, 7, 31) \/ ~FitsRange(c.size, 7, 31)
            THEN Panic("value does not fit into bit range")
            ELSE Ok(<<set_bit(set_bits(0..5, 7, 31, c.address), 31, c.is_ro),
                      set_bit(set_bits(0..5, 7, 31, c.size), 31, c.is_io)>>)
      [] c.type = "IoMemoryMap" ->
            IF ~FitsU32(c.page)
            THEN Panic("called Result::unwrap() on an Err value")
            ELSE IF ~FitsRange(c.page, 8, 32)
            THEN Panic("value does not fit into bit range")
            ELSE Ok(<<set_bits(0..6, 8, 32, c.page)>>)
      [] c.type = "EnableInterrupts" ->
            IF ~FitsRange(BitsOf(c.irq0), 12, 22) \/ ~FitsRange(BitsOf(c.irq1), 22, 32)
            THEN Panic("value does not fit into bit range")
            ELSE Ok(<<set_bits(set_bits(0..10, 12, 22, BitsOf(c.irq0)), 22, 32, BitsOf(c.irq1))>>)
      [] c.type = "MiscParams" ->
            LET prog_type_val == ProgramType_get_value(c.prog_type)
            IN  IF prog_type_val.kind = "None" THEN ErrValue("misc_params (program_type)")
                ELSE Ok(<<set_bits(0..12, 14, 17, prog_type_val.v)>>)
      [] c.type = "KernelVersion" ->
            LET kern_ver_val == KernelVersion_get_value(c.kern_ver)
            IN  IF kern_ver_val.kind = "Panic" THEN Panic("value does not fit into bit range")
                ELSE IF kern_ver_val.kind = "None" THEN ErrValue("kernel_version")
                ELSE Ok(<<set_bits(0..13, 15, 32, kern_ver_val.v)>>)
      [] c.type = "HandleTableSize" ->
            IF ~FitsRange(BitsOf(c.handle_table_size), 16, 26)
            THEN Panic("value does not fit into bit range")
            ELSE Ok(<<set_bits(0..14, 16, 26, BitsOf(c.handle_table_size))>>)
      [] c.type = "DebugFlags" ->
            IF    (IF c.allow_debug THEN 1 ELSE 0) + (IF c.force_debug THEN 1 ELSE 0)
                + (IF c.force_debug_prod THEN 1 ELSE 0) > 1
            THEN ErrDebugFlags
            ELSE Ok(<<DebugFlagsWord(c)>>)

\* a length that forgets the prefix byte of each entry
RECURSIVE sac_len_no_prefix(_)
sac_len_no_prefix(sacs) ==
    IF sacs = <<>> THEN 0 ELSE Len(Head(sacs)) + sac_len_no_prefix(Tail(sacs))

\* sac_encoded_len: sum of 1 + len over the names
RECURSIVE sac_encoded_len(_)
sac_encoded_len(sacs) ==
    IF sacs = <<>> THEN 0 ELSE 1 + Len(Head(sacs)) + sac_encoded_len(Tail(sacs))

(* ------------------------ struct sizes (mod fmt) ------------------------ *)
SizeOfMeta == 128               \* size_of::<Meta>()
SizeOfAcid == 320               \* size_of::<Acid>(), the 0x100-byte key included
SizeOfAcidFsAccessControl == 44 \* size_of::<AcidFsAccessControl>()
SizeOfAci == 64                 \* size_of::<Aci>()
SizeOfAciFsAccessControl == 28  \* size_of::<AciFsAccessControl>()
SigLen == 256                   \* the 0x100 bytes of the signature block
MetaNameLen == 16               \* meta.name = [0; 0x10]
MetaNameCopyMax == 12           \* std::cmp::min(len, 12)

(* --------------------------- the output sink --------------------------- *)
\* Every write to the sink appends one chunk: a serialized struct (its size
\* and its fields) or raw bytes.  `site` names the write that produced it.
NoHdr == [none |-> TRUE]
HdrChunk(site, size, hdr) == [site |-> site, len |-> size, bytes |-> <<>>, hdr |-> hdr]
ByteChunk(site, bytes) == [site |-> site, len |-> Len(bytes), bytes |-> bytes, hdr |-> NoHdr]

RECURSIVE TotalLen(_)
TotalLen(chunks) == IF chunks = <<>> THEN 0 ELSE Head(chunks).len + TotalLen(Tail(chunks))

RECURSIVE Flatten(_)
Flatten(seqs) == IF seqs = <<>> THEN <<>> ELSE Head(seqs) \o Flatten(Tail(seqs))

StreamOk == [kind |-> "Ok", error |-> "", field |-> "", elem |-> <<>>]
StreamErr(e, f, elem) == [kind |-> "Err", error |-> e, field |-> f, elem |-> elem]
StreamPanic(m) == [kind |-> "Panic", error |-> m, field |-> "", elem |-> <<>>]
NotReturned == [kind |-> "Running", error |-> "", field |-> "", elem |-> <<>>]
FromEncode(r) == [kind |-> r.kind, error |-> r.error, field |-> r.field, elem |-> <<>>]

(* ------------------------- service access table ------------------------- *)
\* elem.len() & !7 != 0 || elem.len() == 0
BadServiceName(elem) == (Len(elem) - (Len(elem) % 8)) # 0 \/ Len(elem) = 0

\* a prefix that stores the length itself
ServicePrefixLen(elem, host_bit) ==
    ValOf(BitsOf(Len(elem)) \cup (IF host_bit THEN BitsOf(128) ELSE {}))

\* [elem.len() as u8 - 1]  or  [0x80 | (elem.len() as u8 - 1)]
ServicePrefix(elem, host_bit) ==
    ValOf(BitsOf(Len(elem) - 1) \cup (IF host_bit THEN BitsOf(128) ELSE {}))

\* for elem in services { check; write_all(&[prefix]); write_all(elem.as_bytes()) }
RECURSIVE WriteServices(_, _, _)
WriteServices(services, host_bit, field) ==
    IF services = <<>> THEN [out |-> <<>>, result |-> StreamOk]
    ELSE LET elem == Head(services)
         IN  IF BadServiceName(elem)
             THEN [out |-> <<>>, result |-> StreamErr("InvalidNpdmValue", field, elem)]
             ELSE LET rest == WriteServices(Tail(services), host_bit, field)
                  IN  [out |-> <<ByteChunk("sac", <<ServicePrefix(elem, host_bit)>>),
                                 ByteChunk("sac", elem)>> \o rest.out,
                       result |-> rest.result]

(* ------------------------ kernel capability table ----------------------- *)
\* encoded.iter().map(|v| v.to_le_bytes().to_vec()).flatten().collect()
WordsToBytes(words) == Flatten([i \in 1..Len(words) |-> to_le_bytes(words[i])])

\* a loop that emits the capabilities last to first
RECURSIVE WriteKernelCapsRev(_)
WriteKernelCapsRev(kern_caps) ==
    IF kern_caps = <<>> THEN [out |-> <<>>, result |-> StreamOk]
    ELSE LET e == encode(Head(kern_caps))
         IN  IF e.kind # "Ok" THEN [out |-> <<>>, result |-> FromEncode(e)]
             ELSE LET rest == WriteKernelCapsRev(Tail(kern_caps))
                  IN  [out |-> rest.out \o <<ByteChunk("kac", WordsToBytes(e.words))>>,
                       result |-> rest.result]

\* for elem in kern_caps { let encoded = elem.encode()?...; write_all(&encoded) }
RECURSIVE WriteKernelCaps(_)
WriteKernelCaps(kern_caps) ==
    IF kern_caps = <<>> THEN [out |-> <<>>, result |-> StreamOk]
    ELSE LET e == encode(Head(kern_caps))
         IN  IF e.kind # "Ok" THEN [out |-> <<>>, result |-> FromEncode(e)]
             ELSE LET rest == WriteKernelCaps(Tail(kern_caps))
                  IN  [out |-> <<ByteChunk("kac", WordsToBytes(e.words))>> \o rest.out,
                       result |-> rest.result]

\* kern_caps.iter().map(|v| v.encode().unwrap().len() * 4).sum(): unwrap panics
\* when a capability does not encode
KacSizePanics(kern_caps) == \E i \in 1..Len(kern_caps) : encode(kern_caps[i]).kind # "Ok"

RECURSIVE KacSize(_)
KacSize(kern_caps) ==
    IF kern_caps = <<>> THEN 0
    ELSE Len(encode(Head(kern_caps)).words) * 4 + KacSize(Tail(kern_caps))

(* ------------------------------ options -------------------------------- *)
SomeBool(b) == [kind |-> "Some", v |-> b]
NoneBool == [kind |-> "None", v |-> FALSE]
SomeList(l) == [kind |-> "Some", v |-> l]
NoneList == [kind |-> "None", v |-> <<>>]
SomeSac(a, h) == [kind |-> "Some", accessed_services |-> a, hosted_services |-> h]
NoneSac == [kind |-> "None", accessed_services |-> <<>>, hosted_services |-> <<>>]
unwrap_or(o, d) == IF o.kind = "Some" THEN o.v ELSE d

(* ------------------------------ SHA-256 -------------------------------- *)
\* a digest taken before anything was serialized
calculate_sha256_empty(data) == [sha256_of |-> <<>>]

\* utils::calculate_sha256: a digest that identifies the data it was taken of
calculate_sha256(data) == [sha256_of |-> data]

(* ------------------------------ write_acid ----------------------------- *)
\* an offset that forgets the signature block in front of the ACID header
AcidFsOffsetNoSig == SizeOfAcid

\* acid.fs_access_control_offset = 0x100 + size_of::<Acid>()
AcidFsOffset == SigLen + SizeOfAcid

AcidHeader(n, m, accessed_services, hosted_services, kern_caps) ==
    LET fs_off == AcidFsOffset
        fs_size == SizeOfAcidFsAccessControl
        sac_off == fs_off + fs_size
        sac_size == sac_encoded_len(hosted_services) + sac_encoded_len(accessed_services)
        kac_off == sac_off + sac_size
    IN  [magic |-> "ACID",
         signed_size |-> m.acid_size - SigLen,
         flags |-> (IF unwrap_or(n.is_production, TRUE) THEN {0} ELSE {})
                   \cup (IF unwrap_or(n.unqualified_approval, FALSE) THEN {1} ELSE {})
                   \cup {b + 2 : b \in TruncTo(BitsOf(n.memory_region), 2)},
         fs_access_control_offset |-> fs_off,
         fs_access_control_size |-> fs_size,
         service_access_control_offset |-> sac_off,
         service_access_control_size |-> sac_size,
         kernel_access_control_offset |-> kac_off,
         kernel_access_control_size |-> KacSize(kern_caps)]

AcidFac(n) == [version |-> 1, fs_access_flags_bitmask |-> n.fs_access_control]

\* what write_acid writes to its writer, and what it returns.  developer_key
\* is "None", "Valid" (256 bytes of hex) or "Invalid" (hex::decode(..).unwrap()
\* or copy_from_slice panics)
write_acid(n, m, accessed_services, hosted_services, kern_caps) ==
    IF n.developer_key = "Invalid"
    THEN [out |-> <<>>, result |-> StreamPanic("developer_key")]
    ELSE IF TruncTo(BitsOf(n.memory_region), 32) \ {0, 1} # {}
    THEN [out |-> <<>>, result |-> StreamErr("InvalidNpdmValue", "memory_region", <<>>)]
    ELSE IF KacSizePanics(kern_caps)
    THEN [out |-> <<>>, result |-> StreamPanic("called Result::unwrap() on an Err value")]
    ELSE
    LET hdrs == <<HdrChunk("acid", SizeOfAcid,
                      AcidHeader(n, m, accessed_services, hosted_services, kern_caps)),
                  HdrChunk("acid_fac", SizeOfAcidFsAccessControl, AcidFac(n))>>
        acc == WriteServices(accessed_services, FALSE, "accessed_services")
        hst == WriteServices(hosted_services, TRUE, "hosted_services")
        kac == WriteKernelCaps(kern_caps)
        sac_expected == SizeOfAcid + SizeOfAcidFsAccessControl
                        + sac_encoded_len(accessed_services) + sac_encoded_len(hosted_services)
    IN  IF acc.result.kind # "Ok" THEN [out |-> hdrs \o acc.out, result |-> acc.result]
        ELSE IF hst.result.kind # "Ok"
        THEN [out |-> hdrs \o acc.out \o hst.out, result |-> hst.result]
        ELSE IF TotalLen(hdrs \o acc.out \o hst.out) # sac_expected
        THEN [out |-> hdrs \o acc.out \o hst.out,
              result |-> StreamPanic("Serialized SAC has wrong size")]
        ELSE IF kac.result.kind # "Ok"
        THEN [out |-> hdrs \o acc.out \o hst.out \o kac.out, result |-> kac.result]
        ELSE IF TotalLen(hdrs \o acc.out \o hst.out \o kac.out)
                    # sac_expected + KacSize(kern_caps)
        THEN [out |-> hdrs \o acc.out \o hst.out \o kac.out,
              result |-> StreamPanic("Serialized KAC has wrong size")]
        ELSE [out |-> hdrs \o acc.out \o hst.out \o kac.out, result |-> StreamOk]

(* ------------------------------ into_npdm ------------------------------ *)
\* lines 475-483 and 484-492: the combined form wins over the split lists
accessed_services_of(n) ==
    IF n.service_access_control.kind = "Some"
    THEN SomeList(n.service_access_control.accessed_services)
    ELSE n.accessed_services

hosted_services_of(n) ==
    IF n.service_access_control.kind = "Some"
    THEN SomeList(n.service_access_control.hosted_services)
    ELSE n.hosted_services

\* the identifiers a SystemCallId can hold (enum of mod svc)
SystemCallIds == 0..191

\* EnabledSystemCall
EnabledSystemCallValue(raw_val) == [form |-> "Value", raw_val |-> raw_val, id |-> {}]
EnabledSystemCallName(id) == [form |-> "Name", raw_val |-> {}, id |-> id]

\* the discriminants of svc::SystemCallId
IsSystemCallId(bits) == bits \subseteq 0..7 /\ ValOf(bits) \in SystemCallIds

\* EnabledSystemCall::get_id, as the set of values it may return.  The raw
\* value is cut to 32 bits and transmuted to the enum: for a bit pattern that
\* is no discriminant of SystemCallId the behaviour is undefined, and the
\* result is the pattern itself or any identifier.
get_id(svc) ==
    IF svc.form = "Name" THEN {svc.id}
    ELSE LET raw == TruncTo(svc.raw_val, 32)
         IN  IF IsSystemCallId(raw) THEN {raw}
             ELSE {raw} \cup {BitsOf(i) : i \in SystemCallIds}

\* the Vec collected from get_id over enable_system_calls (line 289): every
\* sequence of possible results
enable_svc_ids_of(enable_system_calls) ==
    {ids \in [1..Len(enable_system_calls) -> UNION {get_id(enable_system_calls[i]) :
                                                    i \in 1..Len(enable_system_calls)}] :
        \A i \in 1..Len(enable_system_calls) : ids[i] \in get_id(enable_system_calls[i])}

\* struct KernelCapabilityValues
KernelCapabilityValues(ti, svcs, mem, io, ints, pt, kv, ad, fdp, fd) ==
    [highest_priority |-> ti[1], lowest_priority |-> ti[2],
     max_core_number |-> ti[3], min_core_number |-> ti[4],
     enable_system_calls |-> svcs, memory_maps |-> mem, io_memory_maps |-> io,
     enable_interrupts |-> ints, program_type |-> pt, kernel_version |-> kv,
     allow_debug |-> ad, force_debug_prod |-> fdp, force_debug |-> fd]

\* the three loops of to_list_format
MemoryMapCaps(mem_maps) ==
    [i \in 1..Len(mem_maps) |->
        MemoryMap(mem_maps[i].address, mem_maps[i].size, mem_maps[i].is_ro, mem_maps[i].is_io)]
IoMemoryMapCaps(io_mem_maps) == [i \in 1..Len(io_mem_maps) |-> IoMemoryMap(io_mem_maps[i])]
EnableInterruptsCaps(enable_ints) ==
    [i \in 1..Len(enable_ints) |-> EnableInterrupts(enable_ints[i][1], enable_ints[i][2])]

\* a to_list_format that pushes DebugFlags only when all three flags are present
to_list_format_all_flags(self, enable_svc_ids) ==
    <<ThreadInfo(self.highest_priority, self.lowest_priority,
                 self.max_core_number, self.min_core_number),
      EnableSystemCalls("Name", enable_svc_ids)>>
    \o (IF self.memory_maps.kind = "Some" THEN MemoryMapCaps(self.memory_maps.v) ELSE <<>>)
    \o (IF self.io_memory_maps.kind = "Some" THEN IoMemoryMapCaps(self.io_memory_maps.v) ELSE <<>>)
    \o (IF self.enable_interrupts.kind = "Some"
        THEN EnableInterruptsCaps(self.enable_interrupts.v) ELSE <<>>)
    \o (IF self.program_type.kind = "Some" THEN <<MiscParams(self.program_type.v)>> ELSE <<>>)
    \o (IF self.kernel_version.kind = "Some"
        THEN <<KernelVersion(self.kernel_version.v)>> ELSE <<>>)
    \o (IF /\ self.allow_debug.kind = "Some" /\ self.force_debug_prod.kind = "Some"
           /\ self.force_debug.kind = "Some"
        THEN <<DebugFlags(unwrap_or(self.allow_debug, FALSE),
                          unwrap_or(self.force_debug_prod, FALSE),
                          unwrap_or(self.force_debug, FALSE))>>
        ELSE <<>>)

\* KernelCapabilityValues::to_list_format; enable_svc_ids is the Vec that the
\* get_id calls of line 289 produced
to_list_format(self, enable_svc_ids) ==
    <<ThreadInfo(self.highest_priority, self.lowest_priority,
                 self.max_core_number, self.min_core_number),
      EnableSystemCalls("Name", enable_svc_ids)>>
    \o (IF self.memory_maps.kind = "Some" THEN MemoryMapCaps(self.memory_maps.v) ELSE <<>>)
    \o (IF self.io_memory_maps.kind = "Some" THEN IoMemoryMapCaps(self.io_memory_maps.v) ELSE <<>>)
    \o (IF self.enable_interrupts.kind = "Some"
        THEN EnableInterruptsCaps(self.enable_interrupts.v) ELSE <<>>)
    \o (IF self.program_type.kind = "Some" THEN <<MiscParams(self.program_type.v)>> ELSE <<>>)
    \o (IF self.kernel_version.kind = "Some"
        THEN <<KernelVersion(self.kernel_version.v)>> ELSE <<>>)
    \o (IF \/ self.allow_debug.kind = "Some" \/ self.force_debug_prod.kind = "Some"
           \/ self.force_debug.kind = "Some"
        THEN <<DebugFlags(unwrap_or(self.allow_debug, FALSE),
                          unwrap_or(self.force_debug_prod, FALSE),
                          unwrap_or(self.force_debug, FALSE))>>
        ELSE <<>>)

\* KernelCapabilities::get_list; enable_svc_ids is only read for the Struct form
get_list(kernel_capabilities, enable_svc_ids) ==
    IF kernel_capabilities.form = "TypeValueList"
    THEN kernel_capabilities.list
    ELSE to_list_format(kernel_capabilities.values, enable_svc_ids)

DefaultMeta ==
    [magic |-> "", flags |-> {}, name |-> <<>>,
     acid_offset |-> 0, acid_size |-> 0, aci_offset |-> 0, aci_size |-> 0]

\* meta.name: the first min(len, 12) bytes of the name, zero padded to 16
MetaName(name) ==
    LET name_len == IF Len(name) < MetaNameCopyMax THEN Len(name) ELSE MetaNameCopyMax
    IN  [i \in 1..MetaNameLen |-> IF i <= name_len THEN name[i] ELSE 0]

MetaFlags(n) ==
    {b + 1 : b \in TruncTo(BitsOf(n.address_space_type), 2)}
    \cup (IF n.is_64_bit THEN {0} ELSE {})
    \cup (IF unwrap_or(n.optimize_memory_allocation, FALSE) THEN {4} ELSE {})
    \cup (IF unwrap_or(n.disable_device_address_space_merge, FALSE) THEN {5} ELSE {})

ContainerBody(accessed_services, hosted_services, kern_caps) ==
    sac_encoded_len(hosted_services) + sac_encoded_len(accessed_services) + KacSize(kern_caps)

Finish(r) ==
    /\ pc' = "done"
    /\ result' = r

\* lines 437-511: build the META header and write it
BuildMeta ==
    /\ pc = "start"
    /\ UNCHANGED <<npdm, acid_behavior, cap, encoded, kcaps, kcap_list, truncate_call, string>>
    /\ LET acc == accessed_services_of(npdm)
           hst == hosted_services_of(npdm)
           kern_caps == get_list(npdm.kernel_capabilities, <<>>)
           generated == acid_behavior.mode \in {"Sign", "Empty"}
       IN  IF BitsOf(npdm.address_space_type) \ {0, 1} # {}
           THEN /\ Finish(StreamErr("InvalidNpdmValue", "address_space_type", <<>>))
                /\ UNCHANGED <<meta, file>>
           ELSE IF acc.kind = "None"
           THEN Finish(StreamPanic("No accessed srvs!")) /\ UNCHANGED <<meta, file>>
           ELSE IF hst.kind = "None"
           THEN Finish(StreamPanic("No hosted srvs!")) /\ UNCHANGED <<meta, file>>
           ELSE IF generated /\ KacSizePanics(kern_caps)
           THEN /\ Finish(StreamPanic("called Result::unwrap() on an Err value"))
                /\ UNCHANGED <<meta, file>>
           ELSE IF ~generated /\ ~acid_behavior.acid_file_exists
           THEN Finish(StreamErr("Io", "", <<>>)) /\ UNCHANGED <<meta, file>>
           ELSE IF KacSizePanics(kern_caps)
           THEN /\ Finish(StreamPanic("called Result::unwrap() on an Err value"))
                /\ UNCHANGED <<meta, file>>
           ELSE LET acid_size ==
                        IF generated
                        THEN SigLen + SizeOfAcid + SizeOfAcidFsAccessControl
                             + ContainerBody(acc.v, hst.v, kern_caps)
                        ELSE Len(acid_behavior.acid_file)
                    m == [magic |-> "META",
                          flags |-> MetaFlags(npdm),
                          name |-> MetaName(npdm.name),
                          acid_offset |-> SizeOfMeta,
                          acid_size |-> acid_size,
                          aci_offset |-> SizeOfMeta + acid_size,
                          aci_size |-> SizeOfAci + SizeOfAciFsAccessControl
                                       + ContainerBody(acc.v, hst.v, kern_caps)]
                IN  /\ meta' = m
                    /\ file' = file \o <<HdrChunk("meta", SizeOfMeta, m)>>
                    /\ pc' = "acid"
                    /\ UNCHANGED result

\* lines 513-539: the declaration container, by mode
WriteAcidSection ==
    /\ pc = "acid"
    /\ UNCHANGED <<npdm, acid_behavior, meta, cap, encoded, kcaps, kcap_list, truncate_call, string>>
    /\ LET acc == accessed_services_of(npdm).v
           hst == hosted_services_of(npdm).v
           kern_caps == get_list(npdm.kernel_capabilities, <<>>)
           w == write_acid(npdm, meta, acc, hst, kern_caps)
       IN  CASE acid_behavior.mode = "Sign" ->
                  IF acid_behavior.pem # "Ok"
                  THEN Finish(StreamErr(acid_behavior.pem, "", <<>>)) /\ UNCHANGED file
                  ELSE IF w.result.kind # "Ok"
                  THEN Finish(w.result) /\ UNCHANGED file
                  ELSE IF acid_behavior.key_len # SigLen
                  THEN /\ Finish(StreamPanic("Signature of wrong length generated"))
                       /\ UNCHANGED file
                  ELSE \E salt \in Salts :
                          /\ file' = file
                                \o <<HdrChunk("sig", acid_behavior.key_len,
                                        [signed |-> calculate_sha256(w.out), salt |-> salt])>>
                                \o w.out
                          /\ pc' = "aci"
                          /\ UNCHANGED result
             [] acid_behavior.mode = "Empty" ->
                  /\ file' = file \o <<ByteChunk("zeros", [i \in 1..SigLen |-> 0])>> \o w.out
                  /\ IF w.result.kind # "Ok" THEN Finish(w.result)
                     ELSE pc' = "aci" /\ UNCHANGED result
             [] acid_behavior.mode = "Use" ->
                  /\ file' = file \o <<ByteChunk("ext", acid_behavior.acid_file)>>
                  /\ pc' = "aci"
                  /\ UNCHANGED result

AciHeader(n, accessed_services, hosted_services, kern_caps) ==
    LET fs_off == SizeOfAci
        fs_size == SizeOfAciFsAccessControl
        sac_off == fs_off + fs_size
        sac_size == sac_encoded_len(hosted_services) + sac_encoded_len(accessed_services)
    IN  [magic |-> "ACI0",
         fs_access_control_offset |-> fs_off,
         fs_access_control_size |-> fs_size,
         service_access_control_offset |-> sac_off,
         service_access_control_size |-> sac_size,
         kernel_access_control_offset |-> sac_off + sac_size,
         kernel_access_control_size |-> KacSize(kern_caps)]

AciFac(n) == [version |-> 1, fs_access_flags_bitmask |-> n.fs_access_control]

\* lines 541-592: the instance container
WriteAci ==
    /\ pc = "aci"
    /\ UNCHANGED <<npdm, acid_behavior, meta, cap, encoded, kcaps, kcap_list, truncate_call, string>>
    /\ LET acc == accessed_services_of(npdm).v
           hst == hosted_services_of(npdm).v
           kern_caps == get_list(npdm.kernel_capabilities, <<>>)
           hdrs == <<HdrChunk("aci", SizeOfAci, AciHeader(npdm, acc, hst, kern_caps)),
                     HdrChunk("aci_fac", SizeOfAciFsAccessControl, AciFac(npdm))>>
           a == WriteServices(acc, FALSE, "accessed_services")
           h == WriteServices(hst, TRUE, "hosted_services")
           k == WriteKernelCaps(kern_caps)
       IN  IF KacSizePanics(kern_caps)
           THEN /\ Finish(StreamPanic("called Result::unwrap() on an Err value"))
                /\ UNCHANGED file
           ELSE IF a.result.kind # "Ok"
           THEN file' = file \o hdrs \o a.out /\ Finish(a.result)
           ELSE IF h.result.kind # "Ok"
           THEN file' = file \o hdrs \o a.out \o h.out /\ Finish(h.result)
           ELSE /\ file' = file \o hdrs \o a.out \o h.out \o k.out
                /\ Finish(k.result)

(* --------------------------- the inputs -------------------------------- *)
\* a service name of n bytes: "a", "ab", "abc", ...
NameOfLen(n) == [i \in 1..n |-> 96 + i]

ServiceNames == {NameOfLen(n) : n \in 0..MaxNameLen}

ServiceLists ==
    {<<>>} \cup {<<x>> : x \in ServiceNames}
    \cup {<<<<97, 97>>>>, <<NameOfLen(1), NameOfLen(2)>>, <<NameOfLen(2), NameOfLen(1)>>,
          <<NameOfLen(2), NameOfLen(8)>>}

ServicePairs ==
    (ServiceLists \X {<<>>, <<NameOfLen(2)>>}) \cup ({<<>>, <<NameOfLen(1)>>} \X ServiceLists)

ServiceForms ==
    {[service_access_control |-> SomeSac(p[1], p[2]),
      accessed_services |-> NoneList, hosted_services |-> NoneList] : p \in ServicePairs}
    \cup
    {[service_access_control |-> NoneSac, accessed_services |-> a, hosted_services |-> h] :
        a \in {NoneList, SomeList(<<NameOfLen(3)>>)},
        h \in {NoneList, SomeList(<<NameOfLen(4)>>)}}
    \cup
    {[service_access_control |-> SomeSac(<<NameOfLen(1)>>, <<>>),
      accessed_services |-> SomeList(<<NameOfLen(3)>>), hosted_services |-> NoneList]}

TypeValueList(l) == [form |-> "TypeValueList", list |-> l, values |-> <<>>]
Struct(kern_caps) == [form |-> "Struct", list |-> <<>>, values |-> kern_caps]

KernelCapLists ==
    {<<>>,
     <<ThreadInfo(0, 63, 3, 0)>>,
     <<ThreadInfo(0, 63, 3, 0),
       EnableSystemCalls("Name", <<BitsOf(48), BitsOf(0), BitsOf(24)>>),
       MemoryMap(BitsOf(1), BitsOf(2), TRUE, FALSE)>>,
     <<MemoryMap(BitsOf(1), BitsOf(2), TRUE, FALSE), IoMemoryMap(BitsOf(5)),
       EnableInterrupts(1, 1023)>>,
     <<IoMemoryMap(BitsOf(5)), MemoryMap(BitsOf(1), BitsOf(2), TRUE, FALSE)>>,
     <<EnableSystemCalls("KeyValue", <<BitsOf(143), BitsOf(1)>>),
       KernelVersion(KernelVersionVersion(<<"3", ".", "0">>)), HandleTableSize(512),
       DebugFlags(TRUE, FALSE, FALSE)>>,
     <<ThreadInfo(0, 63, 3, 0), MiscParams(ProgramTypeValue(BitsOf(5)))>>,
     <<DebugFlags(TRUE, TRUE, FALSE)>>,
     <<EnableSystemCalls("KeyValue", <<BitsOf(144)>>)>>}

Descriptor(ast, mr, sf, kc) ==
    [name |-> NameOfLen(4),
     address_space_type |-> ast,
     is_64_bit |-> TRUE,
     optimize_memory_allocation |-> NoneBool,
     disable_device_address_space_merge |-> NoneBool,
     is_production |-> NoneBool,
     unqualified_approval |-> NoneBool,
     memory_region |-> mr,
     fs_access_control |-> {0, 63},
     service_access_control |-> sf.service_access_control,
     accessed_services |-> sf.accessed_services,
     hosted_services |-> sf.hosted_services,
     kernel_capabilities |-> TypeValueList(kc),
     developer_key |-> "None"]

SmallServiceForms ==
    {[service_access_control |-> SomeSac(p[1], p[2]),
      accessed_services |-> NoneList, hosted_services |-> NoneList] :
        p \in {<<<<>>, <<>>>>, <<<<NameOfLen(1)>>, <<NameOfLen(2)>>>>,
               <<<<NameOfLen(8)>>, <<>>>>, <<<<NameOfLen(1)>>, <<NameOfLen(0)>>>>}}

\* lengths of the descriptor name around the 12 bytes copied and the 16 of the field
NameLens == {0, 11, 12, 13, 15, 16, 17}

Descriptors ==
    {Descriptor(3, 3, sf, kc) : sf \in ServiceForms, kc \in KernelCapLists}
    \cup
    {Descriptor(p[1], p[2], sf, kc) :
        p \in {<<4, 3>>, <<3, 4>>, <<4, 4>>}, sf \in SmallServiceForms, kc \in KernelCapLists}
    \cup
    {[Descriptor(3, p[1], sf, <<ThreadInfo(0, 63, 3, 0)>>) EXCEPT !.developer_key = p[2]] :
        p \in {3, 4} \X {"Valid", "Invalid"}, sf \in SmallServiceForms}
    \cup
    {[Descriptor(3, 3, sf, <<ThreadInfo(0, 63, 3, 0)>>) EXCEPT !.name = NameOfLen(n)] :
        n \in NameLens, sf \in SmallServiceForms}

ExternalFiles == {[i \in 1..n |-> 255 - i] : n \in 0..MaxExtLen}

AcidBehaviors ==
    {[mode |-> "Sign", pem |-> p[1], key_len |-> p[2],
      acid_file_exists |-> FALSE, acid_file |-> <<>>] :
        p \in {<<"Ok", 256>>, <<"Ok", 128>>, <<"KeyError", 256>>}}
    \cup {[mode |-> "Empty", pem |-> "Ok", key_len |-> 256,
           acid_file_exists |-> FALSE, acid_file |-> <<>>]}
    \cup {[mode |-> "Use", pem |-> "Ok", key_len |-> 256,
           acid_file_exists |-> TRUE, acid_file |-> f] : f \in ExternalFiles}
    \cup {[mode |-> "Use", pem |-> "Ok", key_len |-> 256,
           acid_file_exists |-> FALSE, acid_file |-> <<>>]}

NoTruncateCall == [string |-> <<>>, size |-> 0]
NoCap == [type |-> "None"]
NotEncoded == [kind |-> "None", words |-> <<>>, error |-> "", field |-> ""]

(* --------------------- specification of into_npdm ---------------------- *)
Init ==
    /\ npdm \in Descriptors
    /\ acid_behavior \in AcidBehaviors
    /\ pc = "start"
    /\ meta = DefaultMeta
    /\ file = <<>>
    /\ result = NotReturned
    /\ cap = NoCap
    /\ encoded = NotEncoded
    /\ kcaps = TypeValueList(<<>>)
    /\ kcap_list = <<>>
    /\ truncate_call = NoTruncateCall
    /\ string = <<>>

Next == BuildMeta \/ WriteAcidSection \/ WriteAci

Spec == Init /\ [][Next]_vars

(* ------------- specification of KernelCapability::encode --------------- *)

SyscallSamples == {BitsOf(0), BitsOf(23), BitsOf(24), BitsOf(48), BitsOf(143), BitsOf(144), {0, 32}}

SeqsUpTo(S, n) == UNION {[1..k -> S] : k \in 0..n}

U64Samples == {BitsOf(0), BitsOf(1), {23}, {24}, {31}, {32}}

ProgramTypes ==
    {ProgramTypeValue(v) : v \in {BitsOf(0), BitsOf(1), BitsOf(2), BitsOf(3), {16}}}
    \cup {ProgramTypeName(n) : n \in {<<"s", "y", "s", "t", "e", "m">>,
                                      <<"A", "p", "p", "l", "i", "c", "a", "t", "i", "o", "n">>,
                                      <<"A", "P", "P", "L", "E", "T">>,
                                      <<"a", "p", "p">>, <<>>}}

KernelVersions ==
    {KernelVersionValue(v) : v \in {BitsOf(0), BitsOf(47), BitsOf(48), BitsOf(65535),
                                    {4, 5, 16}, {17}, {40}}}
    \cup {KernelVersionVersion(v) : v \in {<<"3", ".", "0">>, <<"0", ".", "0">>,
            <<"4", "0", "9", "5", ".", "1", "5">>, <<"4", "0", "9", "6", ".", "0">>,
            <<"1", ".", "1", "6">>, <<"3">>, <<"3", ".", "0", ".", "1">>,
            <<"a", ".", "b">>, <<"+", "3", ".", "+", "1">>, <<>>, <<".">>, <<"3", ".">>,
            <<"3", ".", "x">>, <<"-", "3", ".", "0">>,
            <<"6", "5", "5", "3", "9", ".", "6", "5", "5", "3", "7">>}}

Capabilities ==
    {ThreadInfo(hp, lp, maxc, minc) :
        hp \in {0, 21, 63, 64}, lp \in {0, 42, 63, 64},
        maxc \in {0, 3, 170, 255}, minc \in {0, 3, 85, 255}}
    \cup {EnableSystemCalls("KeyValue", l) : l \in SeqsUpTo(SyscallSamples, MaxSyscalls)}
    \cup {EnableSystemCalls("Name", l) :
            l \in SeqsUpTo({v \in SyscallSamples : v \subseteq 0..30 /\ ValOf(v) \in SystemCallIds},
                           MaxSyscalls)}
    \cup {MemoryMap(a, sz, ro, io) :
            a \in U64Samples, sz \in U64Samples, ro \in BOOLEAN, io \in BOOLEAN}
    \cup {IoMemoryMap(p) : p \in U64Samples}
    \cup {EnableInterrupts(a, b) : a \in {0, 1023, 1024}, b \in {0, 1023, 65535}}
    \cup {MiscParams(t) : t \in ProgramTypes}
    \cup {KernelVersion(v) : v \in KernelVersions}
    \cup {HandleTableSize(n) : n \in {0, 1023, 1024, 65535}}
    \cup {DebugFlags(a, b, c) : a \in BOOLEAN, b \in BOOLEAN, c \in BOOLEAN}

InitEncode ==
    /\ cap \in Capabilities
    /\ encoded = NotEncoded
    /\ npdm = Descriptor(0, 0, [service_access_control |-> NoneSac,
                                accessed_services |-> NoneList,
                                hosted_services |-> NoneList], <<>>)
    /\ acid_behavior = [mode |-> "Empty", pem |-> "Ok", key_len |-> 256,
                        acid_file_exists |-> FALSE, acid_file |-> <<>>]
    /\ pc = "encode"
    /\ meta = DefaultMeta
    /\ file = <<>>
    /\ result = NotReturned
    /\ kcaps = TypeValueList(<<>>)
    /\ kcap_list = <<>>
    /\ truncate_call = NoTruncateCall
    /\ string = <<>>

\* one call of KernelCapability::encode
Encode ==
    /\ pc = "encode"
    /\ encoded = NotEncoded
    /\ encoded' = encode(cap)
    /\ UNCHANGED <<npdm, acid_behavior, pc, meta, file, result, cap, kcaps, kcap_list, truncate_call, string>>

NextEncode == Encode

SpecEncode == InitEncode /\ [][NextEncode]_vars

(* ------------- a single call of KernelCapabilities::get_list ------------ *)
ThreadInfoSamples == {<<0, 63, 3, 0>>, <<24, 59, 2, 1>>}

EnabledSystemCallLists ==
    {<<>>,
     <<EnabledSystemCallName(BitsOf(1))>>,
     <<EnabledSystemCallValue(BitsOf(5)), EnabledSystemCallName(BitsOf(2))>>}

\* raw values that are cut to 32 bits, and one that is no SystemCallId
UncheckedSystemCallLists ==
    {<<EnabledSystemCallValue({0, 32}), EnabledSystemCallValue(BitsOf(300))>>}

MemoryMapLists ==
    {NoneList, SomeList(<<>>),
     SomeList(<<[address |-> BitsOf(2), size |-> BitsOf(1), is_ro |-> TRUE, is_io |-> FALSE],
                [address |-> BitsOf(1), size |-> BitsOf(3), is_ro |-> FALSE, is_io |-> TRUE]>>)}

IoMemoryMapLists == {NoneList, SomeList(<<BitsOf(9), BitsOf(5)>>)}

EnableInterruptLists == {NoneList, SomeList(<<<<7, 1023>>, <<3, 4>>>>)}

OptionalBools == {NoneBool, SomeBool(FALSE), SomeBool(TRUE)}

\* Option<ProgramType> and Option<KernelVersion>
NoneProgramType == [kind |-> "None", v |-> ProgramTypeValue({})]
NoneKernelVersion == [kind |-> "None", v |-> KernelVersionValue({})]
OptionalProgramTypes == {NoneProgramType, Some(ProgramTypeValue(BitsOf(1)))}
OptionalKernelVersions == {NoneKernelVersion, Some(KernelVersionVersion(<<"3", ".", "0">>))}

Structs ==
    {Struct(KernelCapabilityValues(ti, svcs, mem, io, ints, pt, kv, ad, fdp, fd)) :
        ti \in ThreadInfoSamples, svcs \in EnabledSystemCallLists, mem \in MemoryMapLists,
        io \in IoMemoryMapLists, ints \in EnableInterruptLists,
        pt \in OptionalProgramTypes, kv \in OptionalKernelVersions,
        ad \in OptionalBools, fdp \in OptionalBools, fd \in OptionalBools}
    \cup
    {Struct(KernelCapabilityValues(<<0, 63, 3, 0>>, svcs, mem, NoneList, NoneList,
                                   NoneProgramType, NoneKernelVersion,
                                   ad, NoneBool, NoneBool)) :
        svcs \in UncheckedSystemCallLists, mem \in MemoryMapLists, ad \in OptionalBools}

InitList ==
    /\ kcaps \in Structs \cup {TypeValueList(l) : l \in KernelCapLists}
    /\ kcap_list = <<>>
    /\ pc = "get_list"
    /\ cap = NoCap
    /\ encoded = NotEncoded
    /\ npdm = Descriptor(0, 0, [service_access_control |-> NoneSac,
                                accessed_services |-> NoneList,
                                hosted_services |-> NoneList], <<>>)
    /\ acid_behavior = [mode |-> "Empty", pem |-> "Ok", key_len |-> 256,
                        acid_file_exists |-> FALSE, acid_file |-> <<>>]
    /\ meta = DefaultMeta
    /\ file = <<>>
    /\ result = NotReturned
    /\ truncate_call = NoTruncateCall
    /\ string = <<>>

\* one call of KernelCapabilities::get_list
GetList ==
    /\ pc = "get_list"
    /\ \E enable_svc_ids \in
            (IF kcaps.form = "Struct"
             THEN enable_svc_ids_of(kcaps.values.enable_system_calls) ELSE {<<>>}) :
          kcap_list' = get_list(kcaps, enable_svc_ids)
    /\ pc' = "listed"
    /\ UNCHANGED <<npdm, acid_behavior, meta, file, result, cap, encoded, kcaps,
                   truncate_call, string>>

NextList == GetList

SpecList == InitList /\ [][NextList]_vars

(* ------------- a single call of check_string_or_truncate --------------- *)
\* String::truncate(new_len): nothing happens if new_len is not below the length
truncate(s, new_len) == IF new_len < Len(s) THEN SubSeq(s, 1, new_len) ELSE s

\* utils::check_string_or_truncate: the string afterwards (the warning is
\* printed to stdout and is no part of the state)
check_string_or_truncate(s, size) ==
    IF Len(s) >= size THEN truncate(s, size) ELSE s

InitTruncate ==
    /\ truncate_call \in [string : {NameOfLen(n) : n \in 0..MaxStringLen}, size : 1..MaxFieldSize]
    /\ string = truncate_call.string
    /\ pc = "truncate"
    /\ kcaps = TypeValueList(<<>>)
    /\ kcap_list = <<>>
    /\ cap = NoCap
    /\ encoded = NotEncoded
    /\ npdm = Descriptor(0, 0, [service_access_control |-> NoneSac,
                                accessed_services |-> NoneList,
                                hosted_services |-> NoneList], <<>>)
    /\ acid_behavior = [mode |-> "Empty", pem |-> "Ok", key_len |-> 256,
                        acid_file_exists |-> FALSE, acid_file |-> <<>>]
    /\ meta = DefaultMeta
    /\ file = <<>>
    /\ result = NotReturned

\* one call of check_string_or_truncate
CheckStringOrTruncate ==
    /\ pc = "truncate"
    /\ string' = check_string_or_truncate(string, truncate_call.size)
    /\ pc' = "truncated"
    /\ UNCHANGED <<npdm, acid_behavior, meta, file, result, cap, encoded, kcaps, kcap_list,
                   truncate_call>>

NextTruncate == CheckStringOrTruncate

SpecTruncate == InitTruncate /\ [][NextTruncate]_vars

(* ============================ the claims =============================== *)
(* ------------------------- claims on encode ---------------------------- *)
IsSyscallCall == cap.type = "EnableSystemCalls" /\ encoded.kind # "None"

\* the identifiers given to encode_syscalls (`as u32` applied)
SyscallArgs == {TruncTo(cap.syscalls[i], 32) : i \in 1..Len(cap.syscalls)}

Encodable(v) == v \subseteq 0..30 /\ ValOf(v) \div 24 < 6

EnabledIds == {ValOf(v) : v \in SyscallArgs}

\* the word the claim describes for bucket b
BucketWord(b, ids) ==
    (0..3) \cup {29 + i : i \in BitsOf(b)} \cup {(id % 24) + 5 : id \in {x \in ids : x \div 24 = b}}

RECURSIVE BucketWords(_, _)
BucketWords(b, ids) ==
    IF b > 5 THEN <<>>
    ELSE (IF \E id \in ids : id \div 24 = b THEN <<BucketWord(b, ids)>> ELSE <<>>)
         \o BucketWords(b + 1, ids)

\* C6: for identifiers in the encodable range, encode_syscalls returns one word
\* per bucket holding an enabled identifier, in ascending bucket order, each
\* with bits 0..4 set, bit 4 clear, the bucket index in bits 29..32 and bit
\* (id % 24) + 5 set exactly for the enabled identifiers of the bucket; the
\* result depends only on the set of identifiers; no identifier gives no
\* word and {0, 24, 48} gives three words.
C6_SyscallBuckets ==
    (IsSyscallCall /\ \A v \in SyscallArgs : Encodable(v)) =>
        /\ encoded.kind = "Ok"
        /\ encoded.words = BucketWords(0, EnabledIds)
        /\ \A i \in 1..Len(encoded.words) :
              /\ (0..3) \subseteq encoded.words[i]
              /\ 4 \notin encoded.words[i]
              /\ \A j \in 1..Len(encoded.words) :
                    i < j => ValOf(get_bits(encoded.words[i], 29, 32))
                             < ValOf(get_bits(encoded.words[j], 29, 32))
        /\ Len(encoded.words) = Cardinality({id \div 24 : id \in EnabledIds})
        /\ (EnabledIds = {} => encoded.words = <<>>)
        /\ (EnabledIds = {0, 24, 48} =>
               /\ Len(encoded.words) = 3
               /\ \A i \in 1..3 : 5 \in encoded.words[i])

\* C6 witness: the identifiers 48, 0, 24 (not in ascending order) were encoded
\* into the three words of buckets 0, 1 and 2
C6_Witness ==
    /\ IsSyscallCall
    /\ cap.syscalls = <<BitsOf(48), BitsOf(0), BitsOf(24)>>
    /\ encoded.kind = "Ok"
    /\ Len(encoded.words) = 3

\* C7: a system-call identifier outside the six buckets (id / 24 >= 6) is
\* rejected with an InvalidValue error; encoding EnableSystemCalls never
\* indexes a bucket outside 0..5 and never aborts.  (Stated for the key/value
\* form, whose values reach encode_syscalls unchanged.)
C7_OutOfRangeRejected ==
    (IsSyscallCall /\ cap.form = "KeyValue") =>
        /\ encoded.kind # "Panic"
        /\ ((\E v \in SyscallArgs : ~Encodable(v)) =>
                encoded.kind = "Err" /\ encoded.error = "InvalidNpdmValue")

\* the unary tag of each capability kind
Tag(type) ==
    CASE type = "ThreadInfo" -> 3
      [] type = "EnableSystemCalls" -> 4
      [] type = "MemoryMap" -> 6
      [] type = "IoMemoryMap" -> 7
      [] type = "EnableInterrupts" -> 11
      [] type = "MiscParams" -> 13
      [] type = "KernelVersion" -> 14
      [] type = "HandleTableSize" -> 15
      [] type = "DebugFlags" -> 16

\* C10: every word returned by encode has exactly Tag(kind) consecutive
\* one-bits from bit 0 and a zero bit after them, whatever the payload.
C10_UnaryTag ==
    encoded.kind = "Ok" =>
        \A i \in 1..Len(encoded.words) :
            /\ (0..(Tag(cap.type) - 1)) \subseteq encoded.words[i]
            /\ Tag(cap.type) \notin encoded.words[i]
            /\ encoded.words[i] \subseteq 0..31

\* C10 witness: a ThreadInfo whose payload has the bit next to the tag's
\* terminating zero set was encoded
C10_Witness ==
    /\ cap.type = "ThreadInfo"
    /\ cap.highest_priority = 63
    /\ encoded.kind = "Ok"
    /\ 4 \in encoded.words[1]

(* ------------------------ claims on into_npdm -------------------------- *)
Done == pc = "done"
Success == pc = "done" /\ result.kind = "Ok"
Generated == acid_behavior.mode \in {"Sign", "Empty"}
Accessed == accessed_services_of(npdm).v
Hosted == hosted_services_of(npdm).v
KernCaps == get_list(npdm.kernel_capabilities, <<>>)

HasSite(site) == \E i \in 1..Len(file) : file[i].site = site
IndexOfSite(site) ==
    CHOOSE i \in 1..Len(file) : file[i].site = site /\ \A j \in 1..(i - 1) : file[j].site # site

\* a section ends where the next container begins, or at the end of the sink
EndOfAcid == IF HasSite("aci") THEN IndexOfSite("aci") ELSE Len(file) + 1
EndOfFile == Len(file) + 1

RECURSIVE CountBytes(_, _, _)
\* the bytes the chunks i..j-1 of the sink hold
CountBytes(i, j, sites) ==
    IF i >= j THEN 0
    ELSE (IF file[i].site \in sites THEN file[i].len ELSE 0) + CountBytes(i + 1, j, sites)

AllSites == {"meta", "sig", "zeros", "ext", "acid", "acid_fac", "aci", "aci_fac", "sac", "kac"}
BytesWritten(i, j) == CountBytes(i, j, AllSites)
OffsetOf(i) == BytesWritten(1, i)

RECURSIVE SiteBytes(_, _, _)
\* the raw bytes written by the writes `site` among the chunks i..j-1
SiteBytes(i, j, site) ==
    IF i >= j THEN <<>>
    ELSE (IF file[i].site = site THEN file[i].bytes ELSE <<>>) \o SiteBytes(i + 1, j, site)

RECURSIVE NumWords(_)
NumWords(caps) == IF caps = <<>> THEN 0 ELSE Len(encode(Head(caps)).words) + NumWords(Tail(caps))

\* C1: when into_npdm fails with InvalidValue, InvalidDebugFlags or a key
\* error, no byte has been written to the output sink.
C1_NoPartialOutput ==
    (Done /\ result.kind = "Err"
          /\ result.error \in {"InvalidNpdmValue", "InvalidNpdmDebugFlags", "KeyError"})
        => file = <<>>

\* C2: after a successful into_npdm every size in a written header equals the
\* bytes written for its section: META.acid_size (declaration container with
\* its signature block), ACID.signed_size (what write_acid wrote),
\* META.aci_size (instance container), and in ACID and ACI0 the service table
\* size and the capability table size, the latter 4 times the encoded words.
C2_SizesMatchBytes ==
    Success =>
        LET m == file[1].hdr
            aciI == IndexOfSite("aci")
            aci == file[aciI].hdr
        IN  /\ file[1].site = "meta"
            /\ m.acid_size = BytesWritten(2, aciI)
            /\ m.aci_size = BytesWritten(aciI, EndOfFile)
            /\ aci.service_access_control_size = CountBytes(aciI, EndOfFile, {"sac"})
            /\ aci.kernel_access_control_size = CountBytes(aciI, EndOfFile, {"kac"})
            /\ aci.kernel_access_control_size = 4 * NumWords(KernCaps)
            /\ Generated =>
                LET acidI == IndexOfSite("acid")
                    acid == file[acidI].hdr
                IN  /\ acid.signed_size = BytesWritten(acidI, aciI)
                    /\ acid.service_access_control_size = CountBytes(acidI, aciI, {"sac"})
                    /\ acid.kernel_access_control_size = CountBytes(acidI, aciI, {"kac"})
                    /\ acid.kernel_access_control_size = 4 * NumWords(KernCaps)

\* C2 witness: a successful run with services and capabilities in both containers
C2_Witness ==
    /\ Success /\ Generated
    /\ Accessed # <<>> /\ Hosted # <<>>
    /\ NumWords(KernCaps) >= 3

\* the service and capability chunks of the container starting at chunk `first`
\* (whose offsets count from the byte `base`) lie in the ranges its header gives
TablesInPlace(hdr, first, last, base) ==
    \A i \in first..(last - 1) :
        /\ file[i].site = "sac" =>
              /\ OffsetOf(i) - base >= hdr.service_access_control_offset
              /\ OffsetOf(i + 1) - base <= hdr.kernel_access_control_offset
        /\ file[i].site = "kac" =>
              /\ OffsetOf(i) - base >= hdr.kernel_access_control_offset
              /\ OffsetOf(i + 1) - base
                    <= hdr.kernel_access_control_offset + hdr.kernel_access_control_size

Contiguous(hdr) ==
    /\ hdr.service_access_control_offset
          = hdr.fs_access_control_offset + hdr.fs_access_control_size
    /\ hdr.kernel_access_control_offset
          = hdr.service_access_control_offset + hdr.service_access_control_size

\* C3: after a successful into_npdm in Sign or Empty mode the sections are
\* contiguous in write order: acid_offset is the META header size, aci_offset
\* = acid_offset + acid_size, in each container the fs-access block follows
\* the fixed header, each later offset is the previous offset plus size, the
\* capability table ends at the container size, and the three sizes add up to
\* the bytes written.
C3_ContiguousLayout ==
    (Success /\ Generated) =>
        LET m == file[1].hdr
            acidI == IndexOfSite("acid")
            acid == file[acidI].hdr
            aciI == IndexOfSite("aci")
            aci == file[aciI].hdr
        IN  /\ m.acid_offset = file[1].len
            /\ m.acid_offset = OffsetOf(2)
            /\ m.aci_offset = m.acid_offset + m.acid_size
            /\ m.aci_offset = OffsetOf(aciI)
            /\ file[acidI + 1].site = "acid_fac"
            /\ acid.fs_access_control_offset = OffsetOf(acidI + 1) - OffsetOf(2)
            /\ acid.fs_access_control_size = file[acidI + 1].len
            /\ Contiguous(acid)
            /\ TablesInPlace(acid, acidI, aciI, OffsetOf(2))
            /\ acid.kernel_access_control_offset + acid.kernel_access_control_size = m.acid_size
            /\ file[aciI + 1].site = "aci_fac"
            /\ aci.fs_access_control_offset = OffsetOf(aciI + 1) - OffsetOf(aciI)
            /\ aci.fs_access_control_offset = file[aciI].len
            /\ aci.fs_access_control_size = file[aciI + 1].len
            /\ Contiguous(aci)
            /\ TablesInPlace(aci, aciI, EndOfFile, OffsetOf(aciI))
            /\ aci.kernel_access_control_offset + aci.kernel_access_control_size = m.aci_size
            /\ file[1].len + m.acid_size + m.aci_size = BytesWritten(1, EndOfFile)

\* C3 witness: a successful Sign run with both tables non-empty
C3_Witness ==
    /\ Success /\ acid_behavior.mode = "Sign"
    /\ Accessed # <<>> /\ Hosted # <<>>
    /\ KernCaps # <<>>

NoSite(sites) == \A i \in 1..Len(file) : file[i].site \notin sites

\* C4: in a successful into_npdm the bytes between the META header and the
\* ACI0 header have one source, chosen by the mode: Sign - a 256-byte
\* signature over the SHA-256 of the unsigned container, then exactly the
\* bytes that were hashed; Empty - 256 zero bytes, then the unsigned
\* container; Use - the external file's bytes and nothing generated,
\* META.acid_size being the file's length.
C4_OneSourcePerMode ==
    Success =>
        LET aciI == IndexOfSite("aci")
        IN  CASE acid_behavior.mode = "Sign" ->
                  /\ file[2].site = "sig" /\ file[2].len = 256
                  /\ file[3].site = "acid"
                  /\ file[2].hdr.signed.sha256_of = SubSeq(file, 3, aciI - 1)
                  /\ NoSite({"zeros", "ext"})
                  /\ \A i \in 3..Len(file) : file[i].site # "sig"
              [] acid_behavior.mode = "Empty" ->
                  /\ file[2].site = "zeros" /\ file[2].len = 256
                  /\ \A k \in 1..256 : file[2].bytes[k] = 0
                  /\ file[3].site = "acid"
                  /\ NoSite({"sig", "ext"})
                  /\ \A i \in 3..Len(file) : file[i].site # "zeros"
              [] acid_behavior.mode = "Use" ->
                  /\ file[2].site = "ext" /\ file[2].bytes = acid_behavior.acid_file
                  /\ aciI = 3
                  /\ NoSite({"sig", "zeros", "acid", "acid_fac"})
                  /\ file[1].hdr.acid_size = Len(acid_behavior.acid_file)

\* C4 witness: a successful Sign run whose hashed container holds both tables
C4_Witness ==
    /\ Success /\ acid_behavior.mode = "Sign"
    /\ Hosted # <<>> /\ KernCaps # <<>>
    /\ Len(file[2].hdr.signed.sha256_of) > 3

\* the little-endian bytes of the words of the capabilities, in list order
LeBytes(w) == <<ValOf(get_bits(w, 0, 8)), ValOf(get_bits(w, 8, 16)),
                ValOf(get_bits(w, 16, 24)), ValOf(get_bits(w, 24, 32))>>
RECURSIVE WordBytes(_)
WordBytes(words) == IF words = <<>> THEN <<>> ELSE LeBytes(Head(words)) \o WordBytes(Tail(words))
RECURSIVE CapBytes(_)
CapBytes(caps) ==
    IF caps = <<>> THEN <<>> ELSE WordBytes(encode(Head(caps)).words) \o CapBytes(Tail(caps))

\* C5: in Sign and Empty modes the capability tables of the declaration and
\* of the instance container are byte-identical and equal the concatenation,
\* in list order, of the little-endian words encode returns.
C5_CapabilityTables ==
    (Success /\ Generated) =>
        LET acidI == IndexOfSite("acid")
            aciI == IndexOfSite("aci")
        IN  /\ SiteBytes(acidI, aciI, "kac") = SiteBytes(aciI, EndOfFile, "kac")
            /\ SiteBytes(aciI, EndOfFile, "kac") = CapBytes(KernCaps)

\* C5 witness: three capabilities of different kinds, six words, were written
C5_Witness ==
    /\ Success /\ Generated
    /\ Len(KernCaps) = 3
    /\ Len(SiteBytes(IndexOfSite("aci"), EndOfFile, "kac")) = 24

\* C8: a service name is accepted if and only if its length is 1..8: a run
\* fails with InvalidValue(accessed_services.<name>) or
\* InvalidValue(hosted_services.<name>) only for a name of length 0 or more
\* than 8, and a run that wrote the service tables had only names of 1..8.
C8_NameLengthRule ==
    Done =>
        /\ (result.kind = "Err" /\ result.field \in {"accessed_services", "hosted_services"})
              => Len(result.elem) \notin 1..8
        /\ result.kind = "Ok" =>
              \A i \in 1..Len(Accessed \o Hosted) : Len((Accessed \o Hosted)[i]) \in 1..8

\* the table the claim describes
RECURSIVE SacEntries(_, _)
SacEntries(names, first) ==
    IF names = <<>> THEN <<>>
    ELSE <<first + Len(Head(names)) - 1>> \o Head(names) \o SacEntries(Tail(names), first)
ExpectedSac == SacEntries(Accessed, 0) \o SacEntries(Hosted, 128)
IsPrefix(s, t) == Len(s) <= Len(t) /\ s = SubSeq(t, 1, Len(s))

\* C9: the service table of each container is, for every accessed name in
\* order, the byte length-1 and the name's bytes, then for every hosted name
\* in order, the byte 0x80 | (length-1) and the bytes; its length is the sum
\* of 1 + len(name), the value sac_encoded_len gives for the two lists.
C9_ServiceTable ==
    /\ HasSite("acid") => IsPrefix(SiteBytes(IndexOfSite("acid"), EndOfAcid, "sac"), ExpectedSac)
    /\ HasSite("aci") => IsPrefix(SiteBytes(IndexOfSite("aci"), EndOfFile, "sac"), ExpectedSac)
    /\ Success =>
          /\ SiteBytes(IndexOfSite("aci"), EndOfFile, "sac") = ExpectedSac
          /\ Generated => SiteBytes(IndexOfSite("acid"), EndOfAcid, "sac") = ExpectedSac
          /\ Len(ExpectedSac) = sac_encoded_len(Accessed) + sac_encoded_len(Hosted)
          /\ (Accessed = <<<<97, 97>>>> /\ Hosted = <<>>) => ExpectedSac = <<1, 97, 97>>
          /\ (Accessed = <<>> /\ Hosted = <<<<97, 97>>>>) => ExpectedSac = <<129, 97, 97>>

\* C9 witness: "a" accessed and "aa" hosted were written to both containers
C9_Witness ==
    /\ Success /\ Generated
    /\ Accessed = <<<<97>>>> /\ Hosted = <<<<97, 97>>>>
    /\ SiteBytes(IndexOfSite("acid"), EndOfAcid, "sac") = <<0, 97, 129, 97, 97>>
    /\ SiteBytes(IndexOfSite("aci"), EndOfFile, "sac") = <<0, 97, 129, 97, 97>>

\* C11: for priorities in 0..63 and core numbers in 0..255 encode of ThreadInfo
\* returns exactly one word, and bits 4..10, 10..16, 16..24 and 24..32 of it
\* read back highest priority, lowest priority, min core and max core.
C11_ThreadInfoRoundTrip ==
    (cap.type = "ThreadInfo" /\ encoded.kind # "None"
        /\ cap.highest_priority \in 0..63 /\ cap.lowest_priority \in 0..63
        /\ cap.min_core_number \in 0..255 /\ cap.max_core_number \in 0..255) =>
        /\ encoded.kind = "Ok"
        /\ Len(encoded.words) = 1
        /\ ValOf(get_bits(encoded.words[1], 4, 10)) = cap.highest_priority
        /\ ValOf(get_bits(encoded.words[1], 10, 16)) = cap.lowest_priority
        /\ ValOf(get_bits(encoded.words[1], 16, 24)) = cap.min_core_number
        /\ ValOf(get_bits(encoded.words[1], 24, 32)) = cap.max_core_number

\* C11 witness: the spec's example (highest 0, lowest 63, min core 0, max
\* core 3) was encoded
C11_Witness ==
    /\ cap = ThreadInfo(0, 63, 3, 0)
    /\ encoded.kind = "Ok"
    /\ ValOf(get_bits(encoded.words[1], 24, 32)) = 3

\* C12: encode of DebugFlags fails with InvalidDebugFlags exactly when more
\* than one flag is true; otherwise it returns one word with bit 17 =
\* allow_debug, bit 18 = force_debug_prod, bit 19 = force_debug and no other
\* payload bit.
C12_DebugFlags ==
    (cap.type = "DebugFlags" /\ encoded.kind # "None") =>
        LET n == Cardinality({f \in {"a", "p", "f"} :
                    \/ f = "a" /\ cap.allow_debug
                    \/ f = "p" /\ cap.force_debug_prod
                    \/ f = "f" /\ cap.force_debug})
        IN  IF n > 1
            THEN encoded.kind = "Err" /\ encoded.error = "InvalidNpdmDebugFlags"
            ELSE /\ encoded.kind = "Ok"
                 /\ Len(encoded.words) = 1
                 /\ (17 \in encoded.words[1]) = cap.allow_debug
                 /\ (18 \in encoded.words[1]) = cap.force_debug_prod
                 /\ (19 \in encoded.words[1]) = cap.force_debug
                 /\ encoded.words[1] \ {17, 18, 19} = 0..15

\* C12 witness: force_debug_prod alone was encoded with bit 18
C12_Witness ==
    /\ cap = DebugFlags(FALSE, TRUE, FALSE)
    /\ encoded.kind = "Ok"
    /\ 18 \in encoded.words[1]

\* C13: encode of KernelVersion returns one word whose bits 15..32 hold the
\* version (a numeric v >= 0x30 as v itself, "M.m" as minor in the low 4 bits
\* and major in the next 12), and every other input - a numeric value below
\* 0x30 or too wide for the field, a string that is not two decimal parts, a
\* minor above 4 bits, a major above 12 bits - fails with
\* InvalidValue("kernel_version"), never with an abort or a truncated value.
C13_KernelVersion ==
    (cap.type = "KernelVersion" /\ encoded.kind # "None") =>
        LET kv == cap.kern_ver
            parts == split(kv.str, ".")
            major == from_str_radix(parts[1])
            minor == from_str_radix(parts[2])
            accepted ==
                IF kv.form = "Value"
                THEN ~LessThan(kv.val, BitsOf(48)) /\ FitsRange(kv.val, 15, 32)
                ELSE /\ Len(parts) = 2
                     /\ major.ok /\ minor.ok
                     /\ major.v < 4096 /\ minor.v < 16
        IN  IF accepted
            THEN /\ encoded.kind = "Ok"
                 /\ Len(encoded.words) = 1
                 /\ IF kv.form = "Value"
                    THEN get_bits(encoded.words[1], 15, 32) = kv.val
                    ELSE /\ ValOf(get_bits(encoded.words[1], 15, 19)) = minor.v
                         /\ ValOf(get_bits(encoded.words[1], 19, 31)) = major.v
                         /\ 31 \notin encoded.words[1]
            ELSE encoded = ErrValue("kernel_version")

\* C14: in every ACID mode, `Use` included, into_npdm fails with
\* InvalidValue("address_space_type") when address_space_type has a bit above
\* bit 1, and no run succeeds for a descriptor whose memory_region has a bit
\* above bit 1.
C14_RangeChecksInEveryMode ==
    Done =>
        /\ (npdm.address_space_type \notin 0..3 =>
                /\ result.kind = "Err"
                /\ result.error = "InvalidNpdmValue"
                /\ result.field = "address_space_type")
        /\ (npdm.memory_region \notin 0..3 => result.kind # "Ok")

\* length and elements of an optional list
OptLen(o) == IF o.kind = "Some" THEN Len(o.v) ELSE 0
Present(o) == IF o.kind = "Some" THEN 1 ELSE 0

\* C15: to_list_format returns one ThreadInfo, one EnableSystemCalls, each
\* memory map, each IO memory map and each interrupt pair in input order,
\* then MiscParams if program_type is present, KernelVersion if
\* kernel_version is present, and DebugFlags if and only if one of the three
\* flags is present (absent flags false); the explicit list form is returned
\* unchanged.
C15_ListFormat ==
    pc = "listed" =>
        IF kcaps.form = "TypeValueList" THEN kcap_list = kcaps.list
        ELSE LET v == kcaps.values
                 l == kcap_list
                 nm == OptLen(v.memory_maps)
                 ni == OptLen(v.io_memory_maps)
                 nn == OptLen(v.enable_interrupts)
                 fixed == 2 + nm + ni + nn
                 dbg == \E o \in {v.allow_debug, v.force_debug_prod, v.force_debug} :
                            o.kind = "Some"
                 kvAt == fixed + Present(v.program_type) + 1
                 dbgAt == kvAt + Present(v.kernel_version)
             IN  /\ Len(l) = fixed + Present(v.program_type) + Present(v.kernel_version)
                                + (IF dbg THEN 1 ELSE 0)
                 /\ l[1] = [type |-> "ThreadInfo",
                            highest_priority |-> v.highest_priority,
                            lowest_priority |-> v.lowest_priority,
                            max_core_number |-> v.max_core_number,
                            min_core_number |-> v.min_core_number]
                 /\ l[2].type = "EnableSystemCalls"
                 /\ Len(l[2].syscalls) = Len(v.enable_system_calls)
                 /\ \A i \in 1..Len(v.enable_system_calls) :
                        v.enable_system_calls[i].form = "Name" =>
                            l[2].syscalls[i] = v.enable_system_calls[i].id
                 /\ \A i \in 1..nm :
                        /\ l[2 + i].type = "MemoryMap"
                        /\ l[2 + i].address = v.memory_maps.v[i].address
                        /\ l[2 + i].size = v.memory_maps.v[i].size
                        /\ l[2 + i].is_ro = v.memory_maps.v[i].is_ro
                        /\ l[2 + i].is_io = v.memory_maps.v[i].is_io
                 /\ \A i \in 1..ni :
                        /\ l[2 + nm + i].type = "IoMemoryMap"
                        /\ l[2 + nm + i].page = v.io_memory_maps.v[i]
                 /\ \A i \in 1..nn :
                        /\ l[2 + nm + ni + i].type = "EnableInterrupts"
                        /\ <<l[2 + nm + ni + i].irq0, l[2 + nm + ni + i].irq1>>
                                = v.enable_interrupts.v[i]
                 /\ v.program_type.kind = "Some" =>
                        /\ l[fixed + 1].type = "MiscParams"
                        /\ l[fixed + 1].prog_type = v.program_type.v
                 /\ v.kernel_version.kind = "Some" =>
                        /\ l[kvAt].type = "KernelVersion"
                        /\ l[kvAt].kern_ver = v.kernel_version.v
                 /\ dbg =>
                        /\ l[dbgAt].type = "DebugFlags"
                        /\ l[dbgAt].allow_debug = (v.allow_debug = SomeBool(TRUE))
                        /\ l[dbgAt].force_debug_prod = (v.force_debug_prod = SomeBool(TRUE))
                        /\ l[dbgAt].force_debug = (v.force_debug = SomeBool(TRUE))

\* C15 witness: a struct with two memory maps, two IO maps, two interrupt
\* pairs, a program type, a kernel version and only force_debug present was
\* converted to a list of eleven capabilities ending in DebugFlags
C15_Witness ==
    /\ pc = "listed"
    /\ kcaps.form = "Struct"
    /\ OptLen(kcaps.values.memory_maps) = 2
    /\ OptLen(kcaps.values.io_memory_maps) = 2
    /\ OptLen(kcaps.values.enable_interrupts) = 2
    /\ kcaps.values.allow_debug = NoneBool
    /\ kcaps.values.force_debug_prod = NoneBool
    /\ kcaps.values.force_debug = SomeBool(TRUE)
    /\ Len(kcap_list) = 11
    /\ kcap_list[11] = DebugFlags(FALSE, FALSE, TRUE)

\* C15 witness of the explicit form: a list that does not follow the
\* convenience order came back as it was
C15_WitnessList ==
    /\ pc = "listed"
    /\ kcaps.form = "TypeValueList"
    /\ Len(kcap_list) = 2
    /\ kcap_list[1].type = "IoMemoryMap"

\* C16: after check_string_or_truncate(s, name, size) the string is a prefix
\* of the original of at most size - 1 bytes, and a string shorter than size
\* is unchanged; the 16-byte META name field holds a prefix of the descriptor
\* name of at most 15 bytes followed only by zero bytes.
C16_FieldWidthMinusOne ==
    /\ pc = "truncated" =>
        /\ IsPrefix(string, truncate_call.string)
        /\ Len(string) <= truncate_call.size - 1
        /\ Len(truncate_call.string) < truncate_call.size => string = truncate_call.string
    /\ HasSite("meta") =>
        \E k \in 0..15 :
            /\ k <= Len(npdm.name)
            /\ \A i \in 1..16 : meta.name[i] = IF i <= k THEN npdm.name[i] ELSE 0

\* the aborts that report an internal invariant violation
InternalAborts ==
    {"Signature of wrong length generated", "Serialized SAC has wrong size",
     "Serialized KAC has wrong size"}

\* C17: into_npdm never aborts on a user-input error: a descriptor without a
\* service list for one side gets a MissingField error, a capability that
\* fails to encode gets its InvalidValue/InvalidDebugFlags error returned
\* from the size computation, and only internal invariant violations
\* (signature length, serialized size) abort.
C17_NoAbortOnUserInput ==
    Done =>
        /\ result.kind = "Panic" => result.error \in InternalAborts
        /\ (/\ npdm.address_space_type \in 0..3
            /\ \/ accessed_services_of(npdm).kind = "None"
               \/ hosted_services_of(npdm).kind = "None") =>
                result.kind = "Err" /\ result.error = "MissingField"
        /\ (/\ npdm.address_space_type \in 0..3
            /\ accessed_services_of(npdm).kind = "Some"
            /\ hosted_services_of(npdm).kind = "Some"
            /\ Generated
            /\ \E i \in 1..Len(KernCaps) : encode(KernCaps[i]).kind = "Err") =>
                /\ result.kind = "Err"
                /\ \E i \in 1..Len(KernCaps) :
                        /\ encode(KernCaps[i]).kind = "Err"
                        /\ result.error = encode(KernCaps[i]).error

====
